---- MODULE Spec2Model ----
\* Model of harterjay/sql-schema-transformer: the Streamlit app (src/app.py)
\* and the FastAPI endpoint (src/main.py).  Text is modelled as TLA+ strings,
\* built with \o exactly as the Python code concatenates it.
EXTENDS Integers, Sequences, FiniteSets, TLC

VARIABLES
    \* --- one call of parse_schema (either entry point) ---
    file,            \* the argument of parse_schema
    parser,          \* "none" | "app" | "main": whose parse_schema ran
    parsed,          \* what the call returned or raised
    \* --- environment and session ---
    CLAUDE_API_KEY,  \* os.getenv("CLAUDE_API_KEY")
    is_paid,         \* st.session_state["is_paid"]
    usage_logs,      \* number of today's generate_sql rows of the user
    \* --- what the caller uploads and selects ---
    entry,           \* "app" | "main": the entry point the caller uses
    source_files,    \* app.py: a list (paid) or one file or None; main.py: source
    target_file,
    join_key_file,
    unmapped_option,
    custom_value,
    \* --- one generation request ---
    pc,              \* "idle" | "calling" | "done"
    source_schemas,  \* [(name, df)] as parsed
    target_df,
    join_keys_df,    \* the validated join-key DataFrame, NoDf when none
    prompt,          \* the composed prompt, "" while there is none
    composed,        \* TRUE once the prompt of this request was built
    outbound,        \* requests this request sent to the generation endpoint
    sql,             \* the SQL text the caller received
    error,           \* the exception (or st.error) that ended the request
    shown,           \* the error message the caller sees
    response,        \* the answer the endpoint gave to this request's call
    \* --- the user's day and their other browser session ---
    days_used,       \* (now.date() - signup_date.date()).days
    other_pc,        \* "idle" | "calling": a second session of the same user
    \* --- the browser session and the tables behind the pages ---
    user,            \* st.session_state["user"]
    accounts,        \* e-mails registered with supabase.auth
    paid_users,      \* e-mails whose users row has is_paid = true
    current_page,    \* st.session_state["current_page"]
    query,           \* st.query_params of the page URL
    rendered,        \* what the last script run showed
    improvements     \* the rows of the improvements table

parseVars == <<file, parser, parsed>>
envVars   == <<CLAUDE_API_KEY, is_paid, usage_logs>>
formVars  == <<entry, source_files, target_file, join_key_file,
               unmapped_option, custom_value>>
reqVars   == <<pc, source_schemas, target_df, join_keys_df, prompt, composed,
               outbound, sql, error, shown, response>>
sessVars  == <<days_used, other_pc>>
pageVars  == <<user, accounts, paid_users, current_page, query, rendered,
               improvements>>
vars      == <<parseVars, envVars, formVars, reqVars, sessVars, pageVars>>

-----------------------------------------------------------------------------
\* Bounds of the model.

MaxRows    == 2   \* data rows of an uploaded schema file
MaxSources == 2   \* source files of one upload of a paid user
MaxLogs    == 3   \* generate_sql log rows counted for one day
MaxDays    == 11  \* days since signup up to which the calendar advances
MaxImprovements == 2  \* rows of the improvements table

-----------------------------------------------------------------------------
\* Python values.

\* A cell of a sheet as pandas hands it over: a str, a blank cell (float NaN)
\* or an int (a numeric header cell).
S(x) == [kind |-> "str", s |-> x]
N(x) == [kind |-> "int", s |-> x]
NaN  == [kind |-> "nan", s |-> "nan"]

\* str(v) as an f-string placeholder renders it.
PyStr(v) == v.s

UpperAlpha == "ABCDEFGHIJKLMNOPQRSTUVWXYZ"
LowerAlpha == "abcdefghijklmnopqrstuvwxyz"

LowerChar(c) ==
    IF \E i \in 1..26 : SubSeq(UpperAlpha, i, i) = c
    THEN LET i == CHOOSE j \in 1..26 : SubSeq(UpperAlpha, j, j) = c
         IN  SubSeq(LowerAlpha, i, i)
    ELSE c

RECURSIVE StrLower(_)
StrLower(s) ==
    IF Len(s) = 0 THEN "" ELSE LowerChar(Head(s)) \o StrLower(Tail(s))

RECURSIVE StrJoin(_, _)
StrJoin(sep, parts) ==
    IF Len(parts) = 0 THEN ""
    ELSE IF Len(parts) = 1 THEN parts[1]
    ELSE parts[1] \o sep \o StrJoin(sep, Tail(parts))

\* An exception: its Python type and str(e).
Exc(t, m) == [type |-> t, msg |-> m]
NoError   == Exc("none", "")

Raise(e)   == [ok |-> FALSE, exc |-> e]
Return(v)  == [ok |-> TRUE, value |-> v]
NotCalled  == [ok |-> FALSE, exc |-> NoError]

-----------------------------------------------------------------------------
\* pandas.

NoDf == [columns |-> <<>>, rows |-> <<>>, none |-> TRUE]
DataFrame(cols, rs) == [columns |-> cols, rows |-> rs, none |-> FALSE]

\* pd.read_excel(file): the sheet's first row becomes the column labels, every
\* further row one DataFrame row; a file that is no workbook raises.
read_excel(f) ==
    IF f.readable THEN Return(DataFrame(f.headers, f.rows))
    ELSE Raise(f.readError)

\* [c.lower() for c in df.columns]: only str has .lower().
AllStr(cols) == \A j \in 1..Len(cols) : cols[j].kind = "str"
\* Mutant: the headers are compared as they were typed.
LowerColumns_AsTyped(cols) == [j \in 1..Len(cols) |-> cols[j].s]
LowerColumns(cols) == [j \in 1..Len(cols) |-> StrLower(cols[j].s)]
LowerError == Exc("AttributeError", "'int' object has no attribute 'lower'")

ColumnSet(cols) == {cols[j] : j \in 1..Len(cols)}

\* row['name'] of row i.
RowGet(df, i, name) ==
    df.rows[i][CHOOSE j \in 1..Len(df.columns) : df.columns[j] = name]

-----------------------------------------------------------------------------
\* parse_schema.

required_cols == {"table", "column", "type", "description"}

InvalidFormatMsg ==
    "The uploaded file is not a valid Excel (.xlsx) file. Please check your file and try again."
MissingColumnsMsg == "Missing required columns in schema file."

\* Mutant: one required column is enough (intersection instead of subset).
ValidateColumns_AnyColumn(df, req, msg) ==
    IF ~AllStr(df.columns) THEN Raise(LowerError)
    ELSE LET cols == LowerColumns(df.columns) IN
         IF req \cap ColumnSet(cols) = {}
         THEN Raise(Exc("ValueError", msg))
         ELSE Return(DataFrame(cols, df.rows))

\* df.columns = [c.lower() ...]; issubset check; return df
ValidateColumns(df, req, msg) ==
    IF ~AllStr(df.columns) THEN Raise(LowerError)
    ELSE LET cols == LowerColumns(df.columns) IN
         IF ~(req \subseteq ColumnSet(cols))
         THEN Raise(Exc("ValueError", msg))
         ELSE Return(DataFrame(cols, df.rows))

\* src/app.py
app_parse_schema(f) ==
    LET r == read_excel(f) IN
    IF ~r.ok THEN Raise(Exc("ValueError", InvalidFormatMsg))
    ELSE ValidateColumns(r.value, required_cols, MissingColumnsMsg)

\* src/main.py
main_parse_schema(f) ==
    LET r == read_excel(f) IN
    IF ~r.ok THEN r
    ELSE ValidateColumns(r.value, required_cols, MissingColumnsMsg)

-----------------------------------------------------------------------------
\* Uploaded files.  A file is a workbook (its header row and data rows) or
\* bytes that pd.read_excel cannot read; readError is what the reader raises.

NoFile ==
    [none |-> TRUE, name |-> "", readable |-> FALSE, readError |-> NoError,
     headers |-> <<>>, rows |-> <<>>]
Workbook(n, hs, rs) ==
    [none |-> FALSE, name |-> n, readable |-> TRUE, readError |-> NoError,
     headers |-> hs, rows |-> rs]
Unreadable(n, e) ==
    [none |-> FALSE, name |-> n, readable |-> FALSE, readError |-> e,
     headers |-> <<>>, rows |-> <<>>]

\* What pd.read_excel raises on bytes that are no workbook.
ReaderErrors ==
    { Exc("ValueError",
          "Excel file format cannot be determined, you must specify an engine manually."),
      Exc("BadZipFile", "File is not a zip file") }

\* A sheet is laid out from a layout (the header cells, each with the logical
\* attribute its column holds) and logical rows.
Col(label, key) == [label |-> label, key |-> key]
Sheet(n, layout, lrows) ==
    Workbook(n,
             [j \in 1..Len(layout) |-> layout[j].label],
             [i \in 1..Len(lrows) |->
                 [j \in 1..Len(layout) |-> lrows[i][layout[j].key]]])

ReqLower == <<"table", "column", "type", "description">>
ReqTitle == <<"Table", "Column", "Type", "Description">>
ReqUpper == <<"TABLE", "COLUMN", "TYPE", "DESCRIPTION">>

Perms == {p \in [1..4 -> 1..4] : \A a, b \in 1..4 : p[a] = p[b] => a = b}

\* All four required headers, any order, three letter cases.
FullLayouts ==
    { [j \in 1..4 |-> Col(S(style[p[j]]), ReqLower[p[j]])] :
        p \in Perms, style \in {ReqLower, ReqTitle, ReqUpper} }

TitleLayout == [j \in 1..4 |-> Col(S(ReqTitle[j]), ReqLower[j])]

\* Some required header left out.
PartialLayouts ==
    { SelectSeq(TitleLayout, LAMBDA c : c.key \in K) :
        K \in (SUBSET {"table", "column", "type", "description"})
                 \ {{"table", "column", "type", "description"}} }

\* One more column: a text header, or a numeric header cell.
ExtraLayouts ==
    { Append(l, Col(x, "extra")) :
        l \in {TitleLayout,
               SelectSeq(TitleLayout, LAMBDA c : c.key # "description")},
        x \in {S("Notes"), N("2024")} }

Row(t, c, ty, d) ==
    [table |-> t, column |-> c, type |-> ty, description |-> d,
     extra |-> S("x")]
RowOrdersId    == Row(S("orders"), S("id"), S("int"), S("order id"))
RowOrdersTotal == Row(S("orders"), S("total"), S("money"), S("amount"))
RowBlank       == Row(S("cust"), S("name"), NaN, NaN)
LogicalRows    == {RowOrdersId, RowOrdersTotal, RowBlank}

SeqsUpTo(X, n) == UNION {[1..k -> X] : k \in 0..n}

ParseFiles ==
    { Sheet("schema.xlsx", l, rs) :
        l \in FullLayouts \cup PartialLayouts \cup ExtraLayouts,
        rs \in SeqsUpTo(LogicalRows, MaxRows) }
    \cup { Unreadable("schema.xlsx", e) : e \in ReaderErrors }

-----------------------------------------------------------------------------
\* Values before anything ran.

KeyUnset  == [set |-> FALSE, value |-> ""]
KeySet(v) == [set |-> TRUE, value |-> v]

NoSql      == [delivered |-> FALSE, text |-> ""]
Sql(t)     == [delivered |-> TRUE, text |-> t]

OneFile(f)   == [multi |-> FALSE, files |-> IF f.none THEN <<>> ELSE <<f>>]
FileList(fs) == [multi |-> TRUE, files |-> fs]

ParseIdle == file = NoFile /\ parser = "none" /\ parsed = NotCalled
EnvIdle   == CLAUDE_API_KEY = KeyUnset /\ is_paid = FALSE /\ usage_logs = 0
FormIdle  ==
    /\ entry = "app" /\ source_files = OneFile(NoFile) /\ target_file = NoFile
    /\ join_key_file = NoFile /\ unmapped_option = "Null" /\ custom_value = ""
NoResponse == [kind |-> "none", status |-> 0]
ReqIdle   ==
    /\ pc = "idle" /\ source_schemas = <<>> /\ target_df = NoDf
    /\ join_keys_df = NoDf /\ prompt = "" /\ composed = FALSE /\ outbound = 0
    /\ sql = NoSql /\ error = NoError /\ shown = "" /\ response = NoResponse
SessIdle  == days_used = 0 /\ other_pc = "idle"

\* st.session_state["user"]: None, or the user object of supabase.auth.
NoUser    == [none |-> TRUE, email |-> ""]
User(e)   == [none |-> FALSE, email |-> e]
NoQuery   == [present |-> FALSE, session_id |-> "", email |-> ""]
Query(sid, e) == [present |-> TRUE, session_id |-> sid, email |-> e]
OtherEmail == "eve@example.com"
\* A session that is signed in and stands on the main page.
PageIdle  ==
    /\ user = User(OtherEmail) /\ accounts = {OtherEmail}
    /\ paid_users = (IF is_paid THEN {OtherEmail} ELSE {})
    /\ current_page = "main" /\ query = NoQuery /\ rendered = "form"
    /\ improvements = {}

-----------------------------------------------------------------------------
\* Specification of parse_schema alone: the uploaded file is drawn initially,
\* a step calls one entry point's parse_schema on it.

InitParse ==
    /\ file \in ParseFiles
    /\ parser = "none" /\ parsed = NotCalled
    /\ EnvIdle /\ FormIdle /\ ReqIdle /\ SessIdle /\ PageIdle

ParseApp ==
    /\ parser = "none"
    /\ parser' = "app"
    /\ parsed' = app_parse_schema(file)
    /\ UNCHANGED <<file, pageVars, envVars, formVars, reqVars, sessVars>>

ParseMain ==
    /\ parser = "none"
    /\ parser' = "main"
    /\ parsed' = main_parse_schema(file)
    /\ UNCHANGED <<file, pageVars, envVars, formVars, reqVars, sessVars>>

NextParse == ParseApp \/ ParseMain

ParseSpec == InitParse /\ [][NextParse]_vars

-----------------------------------------------------------------------------
\* The error kinds of the specification, as the code raises them.

InvalidFormat(e)  == e.type = "ValueError" /\ e.msg = InvalidFormatMsg
MissingColumns(e) == e.type = "ValueError" /\ e.msg = MissingColumnsMsg

\* The headers of the uploaded sheet after lower-casing (defined when every
\* header cell is text).
HeaderTexts(f) == {f.headers[j].s : j \in 1..Len(f.headers)}
LoweredHeaders(f) == {StrLower(h) : h \in HeaderTexts(f)}
HasRequired(f) ==
    /\ f.readable
    /\ \A j \in 1..Len(f.headers) : f.headers[j].kind = "str"
    /\ \A c \in {"table", "column", "type", "description"} :
          c \in LoweredHeaders(f)
LacksRequired(f) ==
    /\ f.readable
    /\ \A j \in 1..Len(f.headers) : f.headers[j].kind = "str"
    /\ \E c \in {"table", "column", "type", "description"} :
          c \notin LoweredHeaders(f)

C3_InvalidFormatRaised ==
    (parser # "none" /\ ~file.readable) =>
        /\ ~parsed.ok
        /\ InvalidFormat(parsed.exc)
        /\ ~MissingColumns(parsed.exc)

-----------------------------------------------------------------------------
\* Rendering (src/app.py and src/main.py).

PyNone     == [none |-> TRUE, s |-> ""]
Name(x)    == [none |-> FALSE, s |-> x]
Truthy(n)  == ~n.none /\ n.s # ""

\* f"{row['table']}.{row['column']} {row['type']} -- {row['description']}"
FieldLine(df, i) ==
    PyStr(RowGet(df, i, "table")) \o "." \o PyStr(RowGet(df, i, "column"))
        \o " " \o PyStr(RowGet(df, i, "type"))
        \o " -- " \o PyStr(RowGet(df, i, "description"))

\* Mutant: the label is not ended by a newline.
schema_to_text_LabelInline(df, source_name) ==
    LET prefix == IF Truthy(source_name)
                  THEN "[" \o source_name.s \o "]" ELSE ""
    IN  prefix \o StrJoin("\n", [i \in 1..Len(df.rows) |-> FieldLine(df, i)])

schema_to_text(df, source_name) ==
    LET prefix == IF Truthy(source_name)
                  THEN "[" \o source_name.s \o "]\n" ELSE ""
    IN  prefix \o StrJoin("\n", [i \in 1..Len(df.rows) |-> FieldLine(df, i)])

main_schema_to_text(df) ==
    StrJoin("\n", [i \in 1..Len(df.rows) |-> FieldLine(df, i)])

\* Mutant: the two sides of the join are taken from the wrong columns.
JoinLine_Swapped(df, i) ==
    PyStr(RowGet(df, i, "left_table")) \o "."
        \o PyStr(RowGet(df, i, "right_field")) \o " = "
        \o PyStr(RowGet(df, i, "right_table")) \o "."
        \o PyStr(RowGet(df, i, "left_field"))

JoinLine(df, i) ==
    PyStr(RowGet(df, i, "left_table")) \o "."
        \o PyStr(RowGet(df, i, "left_field")) \o " = "
        \o PyStr(RowGet(df, i, "right_table")) \o "."
        \o PyStr(RowGet(df, i, "right_field"))

join_keys_to_text(df) ==
    StrJoin("\n", [i \in 1..Len(df.rows) |-> JoinLine(df, i)])

\* sources_text = "\n\n".join(schema_to_text(df, source_name=name) ...)
sources_text(schemas) ==
    StrJoin("\n\n", [k \in 1..Len(schemas) |->
                        schema_to_text(schemas[k].df, schemas[k].name)])

\* Mutant: the custom value is not used, everything but Null is NO_VALUE.
unmapped_instruction_NoCustom(option, custom) ==
    IF option = "Null"
    THEN "If a target field cannot be mapped to any source field, output NULL for that field in the SELECT statement."
    ELSE "If a target field cannot be mapped to any source field, output the string literal 'NO_VALUE' for that field in the SELECT statement."

unmapped_instruction(option, custom) ==
    IF option = "Null"
    THEN "If a target field cannot be mapped to any source field, output NULL for that field in the SELECT statement."
    ELSE IF option = "NO_VALUE"
    THEN "If a target field cannot be mapped to any source field, output the string literal 'NO_VALUE' for that field in the SELECT statement."
    ELSE "If a target field cannot be mapped to any source field, output the string literal '"
             \o custom \o "' for that field in the SELECT statement."

\* The source has a (mis-encoded) U+2014 dash between "commentary" and
\* "output"; it is written "-" here.
AppClosing ==
    "\nWrite ONLY the SQL SELECT statement (no explanation, no comments, no description) that transforms and joins the appropriate source tables to produce the target schema. Use field names and descriptions to determine which source table/column to use for each target field. Format the SQL as a valid Microsoft SQL Server (T-SQL) script, using proper indentation, line breaks, and JOINs as needed. Do not include any explanation or commentary-output only the SQL code."

JoinKeysSentence ==
    "Use the following join keys when joining tables (these are the correct join relationships):"

\* Mutant: the target is rendered like a source, under a label.
target_block_Labelled(tdf) ==
    "<target>\n" \o schema_to_text(tdf, Name("target")) \o "\n</target>\n"

\* target_text = schema_to_text(target_df), between the <target> lines.
target_block(tdf) ==
    "<target>\n" \o schema_to_text(tdf, PyNone) \o "\n</target>\n"

\* Variant: the unmapped-field instruction is put before the join keys.
prompt_body_PolicyFirst(schemas, tdf, join_keys_text, option, custom) ==
    LET p1 == "Given the following source schemas (from different systems):\n"
                  \o sources_text(schemas)
                  \o "\n\nAnd the following target schema:\n"
                  \o target_block(tdf)
                  \o "\n" \o unmapped_instruction(option, custom) \o "\n"
    IN  IF join_keys_text # ""
        THEN p1 \o "\n" \o JoinKeysSentence \o "\n" \o join_keys_text \o "\n"
        ELSE p1

\* src/app.py: the prompt up to the unmapped-field instruction.
prompt_body(schemas, tdf, join_keys_text, option, custom) ==
    LET p1 == "Given the following source schemas (from different systems):\n"
                  \o sources_text(schemas)
                  \o "\n\nAnd the following target schema:\n"
                  \o target_block(tdf)
        p2 == IF join_keys_text # ""
              THEN p1 \o "\n" \o JoinKeysSentence \o "\n"
                      \o join_keys_text \o "\n"
              ELSE p1
    IN  p2 \o "\n" \o unmapped_instruction(option, custom) \o "\n"

\* Mutant: the SQL of the session's previous request is fed back.
app_prompt_WithHistory(schemas, tdf, join_keys_text, option, custom) ==
    prompt_body(schemas, tdf, join_keys_text, option, custom)
        \o (IF sql.delivered THEN "\nPrevious SQL:\n" \o sql.text \o "\n" ELSE "")
        \o AppClosing

\* src/app.py: the prompt of the submitted block.
app_prompt(schemas, tdf, join_keys_text, option, custom) ==
    prompt_body(schemas, tdf, join_keys_text, option, custom) \o AppClosing

\* src/main.py: the prompt of generate_sql.
main_prompt(sdf, tdf) ==
    "Given the following source schema:\n<source>\n"
        \o main_schema_to_text(sdf) \o "\n</source>\n\n"
        \o "And the following target schema:\n<target>\n"
        \o main_schema_to_text(tdf) \o "\n</target>\n\n"
        \o "Write ONLY the SQL SELECT statement (no explanation, no comments, no description) that transforms data from the source schema to match the target schema.\n"
        \o "Format the SQL as a valid Microsoft SQL Server (T-SQL) script, using proper indentation and line breaks. Do not include any explanation or commentary-output only the SQL code."

-----------------------------------------------------------------------------
\* call_claude up to the HTTP request.

ConfigurationMsg ==
    "CLAUDE_API_KEY environment variable not found. Please create a .env file with your Claude API key."

\* src/app.py: os.getenv("CLAUDE_API_KEY") or ""; raise when empty.
\* "post": httpx.post is called.
app_call_claude(key) ==
    LET k == IF key.set THEN key.value ELSE "" IN
    IF k = "" THEN Raise(Exc("ValueError", ConfigurationMsg))
    ELSE Return("post")

\* src/main.py: no check.  The key goes into the x-api-key header as it is;
\* httpx refuses a None header value before anything is sent (TypeError, or
\* AttributeError in older releases), any str value is sent.
HeaderErrors ==
    { Exc("TypeError", "Header value must be str or bytes, not <class 'NoneType'>"),
      Exc("AttributeError", "'NoneType' object has no attribute 'encode'") }

main_call_claude(key, e) ==
    IF ~key.set THEN Raise(e) ELSE Return("post")

-----------------------------------------------------------------------------
\* The files of a generation request.

UpperMixedLayout ==
    <<Col(S("DESCRIPTION"), "description"), Col(S("TYPE"), "type"),
      Col(S("TABLE"), "table"), Col(S("COLUMN"), "column")>>
NoDescLayout == SelectSeq(TitleLayout, LAMBDA c : c.key # "description")

\* Upper-case headers in another order; the second row has blank cells.
SrcOrders == Sheet("orders.xlsx", UpperMixedLayout, <<RowOrdersId, RowBlank>>)
SrcEmpty  == Sheet("empty.xlsx", TitleLayout, <<>>)
SrcNoDesc == Sheet("nodesc.xlsx", NoDescLayout, <<RowOrdersId>>)
BadFile   ==
    Unreadable("bad.xlsx",
               Exc("ValueError",
                   "Excel file format cannot be determined, you must specify an engine manually."))
TgtOrd    ==
    Sheet("target.xlsx", TitleLayout,
          <<Row(S("ord"), S("order_id"), S("int"), S("order identifier"))>>)

SourceFiles == {SrcOrders, SrcEmpty, SrcNoDesc}
TargetFiles == {NoFile, TgtOrd, SrcEmpty, BadFile}

required_join_cols == {"left_table", "left_field", "right_table", "right_field"}
JoinColumnsMsg ==
    "Join Key table must have columns: left_table, left_field, right_table, right_field"

JoinLayout ==
    <<Col(S("Left_Table"), "left_table"), Col(S("left_field"), "left_field"),
      Col(S("RIGHT_TABLE"), "right_table"), Col(S("right_field"), "right_field")>>
JRow(lt, lf, rt, rf) ==
    [left_table |-> S(lt), left_field |-> S(lf),
     right_table |-> S(rt), right_field |-> S(rf)]
JkTwo     ==
    Sheet("joins.xlsx", JoinLayout,
          <<JRow("orders", "cust_id", "cust", "id"),
            JRow("orders", "id", "items", "order_id")>>)
JkEmpty   == Sheet("joins.xlsx", JoinLayout, <<>>)
JkMissing ==
    Sheet("joins.xlsx", SelectSeq(JoinLayout, LAMBDA c : c.key # "right_field"),
          <<JRow("orders", "cust_id", "cust", "id")>>)
JoinKeyFiles == {NoFile, JkTwo, JkEmpty, JkMissing, BadFile}

CustomValues == {"", "N/A"}
Policies ==
    {<<"Null", "">>, <<"NO_VALUE", "">>}
        \cup {<<"Custom value", v>> : v \in CustomValues}

ApiKeys == {KeyUnset, KeySet(""), KeySet("sk-test")}

-----------------------------------------------------------------------------
\* The submitted block of src/app.py, up to the HTTP request.

DailyLimit == 2

UploadSourceMsg == "Please upload at least one source schema file."
UploadTargetMsg == "Please upload a target schema file."

\* What a run of a handler leaves behind.
Outcome(p, schemas, tdf, jdf, text, comp, out, s, e, msg) ==
    [pc |-> p, source_schemas |-> schemas, target_df |-> tdf,
     join_keys_df |-> jdf, prompt |-> text, composed |-> comp,
     outbound |-> out, sql |-> s, error |-> e, shown |-> msg]

\* st.error(...); st.stop()
Stopped(msg) ==
    Outcome("done", <<>>, NoDf, NoDf, "", FALSE, 0, NoSql,
            Exc("st.error", msg), msg)
\* except Exception as e: st.error(f"Error: {e}"), before any prompt
Caught(e) ==
    Outcome("done", <<>>, NoDf, NoDf, "", FALSE, 0, NoSql, e,
            "Error: " \o e.msg)

\* The label of the k-th source: file.name in a list upload, "source_file"
\* for the single file of a free user.
SourceName(files, k) ==
    IF files.multi THEN Name(files.files[k].name) ELSE Name("source_file")

ParsedSources(files) ==
    [k \in 1..Len(files.files) |-> app_parse_schema(files.files[k])]

\* Variant: a join-key file that cannot be used is ignored.
parse_join_keys_Lenient(f) ==
    LET r == read_excel(f) IN
    IF ~r.ok THEN Return(NoDf)
    ELSE LET v == ValidateColumns(r.value, required_join_cols, JoinColumnsMsg)
         IN  IF v.ok THEN v ELSE Return(NoDf)

\* pd.read_excel(join_key_file) and the column check of the submitted block.
parse_join_keys(f) ==
    LET r == read_excel(f) IN
    IF ~r.ok THEN r
    ELSE ValidateColumns(r.value, required_join_cols, JoinColumnsMsg)

app_submitted(files, tfile, jfile, option, custom, key) ==
    IF Len(files.files) = 0 THEN Stopped(UploadSourceMsg)
    ELSE IF tfile.none THEN Stopped(UploadTargetMsg)
    ELSE
      LET srcs == ParsedSources(files)
          bad  == {k \in 1..Len(srcs) : ~srcs[k].ok}
      IN
      IF bad # {}
      THEN Caught(srcs[CHOOSE k \in bad : \A m \in bad : k <= m].exc)
      ELSE
      LET schemas == [k \in 1..Len(srcs) |->
                         [name |-> SourceName(files, k), df |-> srcs[k].value]]
          tgt == app_parse_schema(tfile)
      IN
      IF ~tgt.ok THEN Caught(tgt.exc)
      ELSE
      LET jk == IF jfile.none THEN Return(NoDf) ELSE parse_join_keys(jfile) IN
      IF ~jk.ok THEN Caught(jk.exc)
      ELSE
      LET jtext == IF jfile.none THEN "" ELSE join_keys_to_text(jk.value)
          text  == app_prompt(schemas, tgt.value, jtext, option, custom)
          call  == app_call_claude(key)
      IN
      IF ~call.ok
      THEN Outcome("done", schemas, tgt.value, jk.value, text, TRUE, 0,
                   NoSql, call.exc, "Error: " \o call.exc.msg)
      ELSE Outcome("calling", schemas, tgt.value, jk.value, text, TRUE, 1,
                   NoSql, NoError, "")

Install(o) ==
    /\ pc' = o.pc
    /\ source_schemas' = o.source_schemas
    /\ target_df' = o.target_df
    /\ join_keys_df' = o.join_keys_df
    /\ prompt' = o.prompt
    /\ composed' = o.composed
    /\ outbound' = o.outbound
    /\ sql' = o.sql
    /\ error' = o.error
    /\ shown' = o.shown
    /\ response' = NoResponse

\* max(0, 10 - days_used)
TrialDays == 10
get_trial_days_left(days) == IF TrialDays - days > 0 THEN TrialDays - days ELSE 0

\* Variant: only the trial is checked, not today's generations.
reaches_form_TrialOnly(paid, trial_days_left, generations_today) ==
    paid \/ trial_days_left # 0

\* The script run comes past the two st.stop() of a free user and renders
\* the form.
reaches_form(paid, trial_days_left, generations_today) ==
    paid \/ (trial_days_left # 0 /\ ~(generations_today >= DailyLimit))

\* Variant: the usage is logged when the request starts, before its outcome
\* is known.
AppSubmit_LogsFirst ==
    /\ entry = "app"
    /\ pc \in {"idle", "done"}
    /\ ~user.none
    /\ reaches_form(is_paid, get_trial_days_left(days_used), usage_logs)
    /\ current_page = "main"
    /\ usage_logs < MaxLogs
    /\ Install(app_submitted(source_files, target_file, join_key_file,
                             unmapped_option, custom_value, CLAUDE_API_KEY))
    /\ usage_logs' = usage_logs + 1
    /\ UNCHANGED <<parseVars, pageVars, CLAUDE_API_KEY, is_paid, formVars, sessVars>>

\* The user presses "Generate SQL"; the script reruns from the top, stops at
\* the login page without a session user, reads the user's tier, trial and
\* today's log rows, and comes to the submitted block only where the main
\* page's form is rendered.
AppSubmit ==
    /\ entry = "app"
    /\ pc \in {"idle", "done"}
    /\ ~user.none
    /\ reaches_form(is_paid, get_trial_days_left(days_used), usage_logs)
    /\ current_page = "main"
    /\ usage_logs < MaxLogs
    /\ Install(app_submitted(source_files, target_file, join_key_file,
                             unmapped_option, custom_value, CLAUDE_API_KEY))
    /\ UNCHANGED <<parseVars, pageVars, envVars, formVars, sessVars>>

-----------------------------------------------------------------------------
\* The answer of the generation endpoint, and the rest of call_claude.

SqlText == "SELECT 1"
Responses ==
    { [kind |-> "ok", status |-> 200], [kind |-> "malformed", status |-> 200],
      [kind |-> "status", status |-> 500], [kind |-> "timeout", status |-> 0] }

\* Variant: a body without content[0].text yields an empty text instead of
\* raising.
read_response_Defaulting(r) ==
    IF r.kind = "timeout"
    THEN Raise(Exc("ReadTimeout", "The read operation timed out"))
    ELSE IF r.status >= 400
    THEN Raise(Exc("HTTPStatusError", "Server error '500 Internal Server Error'"))
    ELSE IF r.kind = "malformed"
    THEN Return("")
    ELSE Return(SqlText)

\* response.raise_for_status(); response.json()["content"][0]["text"]
read_response(r) ==
    IF r.kind = "timeout"
    THEN Raise(Exc("ReadTimeout", "The read operation timed out"))
    ELSE IF r.status >= 400
    THEN Raise(Exc("HTTPStatusError", "Server error '500 Internal Server Error'"))
    ELSE IF r.kind = "malformed"
    THEN Raise(Exc("KeyError", "'content'"))
    ELSE Return(SqlText)

InsertError == Exc("APIError", "usage_logs insert failed")

\* Variant: a failed call is sent once more before the error is reported.
AppResponse_Retry ==
    /\ entry = "app"
    /\ pc = "calling"
    /\ \E r \in Responses, insert_ok \in BOOLEAN :
        LET res == read_response(r) IN
        /\ response' = r
        /\ IF ~res.ok /\ outbound < 2
           THEN /\ pc' = "calling"
                /\ outbound' = outbound + 1
                /\ UNCHANGED <<sql, error, shown, usage_logs>>
           ELSE /\ pc' = "done"
                /\ outbound' = outbound
                /\ IF ~res.ok
                   THEN /\ sql' = NoSql
                        /\ error' = res.exc
                        /\ shown' = "Error: " \o res.exc.msg
                        /\ usage_logs' = usage_logs
                   ELSE /\ sql' = Sql(res.value)
                        /\ IF insert_ok
                           THEN /\ usage_logs' = usage_logs + 1
                                /\ error' = NoError
                                /\ shown' = ""
                           ELSE /\ usage_logs' = usage_logs
                                /\ error' = InsertError
                                /\ shown' = "Error: " \o InsertError.msg
    /\ UNCHANGED <<parseVars, pageVars, CLAUDE_API_KEY, is_paid, formVars, sessVars,
                   source_schemas, target_df, join_keys_df, prompt, composed>>

\* src/app.py: the answer arrives; the SQL is shown and the usage is logged.
AppResponse ==
    /\ entry = "app"
    /\ pc = "calling"
    /\ \E r \in Responses, insert_ok \in BOOLEAN :
        LET res == read_response(r) IN
        /\ pc' = "done"
        /\ response' = r
        /\ IF ~res.ok
           THEN /\ sql' = NoSql
                /\ error' = res.exc
                /\ shown' = "Error: " \o res.exc.msg
                /\ usage_logs' = usage_logs
           ELSE /\ sql' = Sql(res.value)
                /\ IF insert_ok
                   THEN /\ usage_logs' = usage_logs + 1
                        /\ error' = NoError
                        /\ shown' = ""
                   ELSE /\ usage_logs' = usage_logs
                        /\ error' = InsertError
                        /\ shown' = "Error: " \o InsertError.msg
    /\ UNCHANGED <<parseVars, pageVars, CLAUDE_API_KEY, is_paid, formVars, sessVars,
                   source_schemas, target_df, join_keys_df, prompt, composed,
                   outbound>>

-----------------------------------------------------------------------------
\* generate_sql of src/main.py.

\* raise HTTPException(status_code=500, detail=f"Internal server error: {e}")
MainCaught(e, text, comp) ==
    Outcome("done", <<>>, NoDf, NoDf, text, comp, 0, NoSql, e,
            "Internal server error: " \o e.msg)

main_generate_sql(sfile, tfile, key, e) ==
    LET src == main_parse_schema(sfile) IN
    IF ~src.ok THEN MainCaught(src.exc, "", FALSE)
    ELSE
    LET tgt == main_parse_schema(tfile) IN
    IF ~tgt.ok THEN MainCaught(tgt.exc, "", FALSE)
    ELSE
    LET text == main_prompt(src.value, tgt.value)
        call == main_call_claude(key, e)
        schemas == <<[name |-> PyNone, df |-> src.value]>>
    IN
    IF ~call.ok
    THEN Outcome("done", schemas, tgt.value, NoDf, text, TRUE, 0, NoSql,
                 call.exc, "Internal server error: " \o call.exc.msg)
    ELSE Outcome("calling", schemas, tgt.value, NoDf, text, TRUE, 1, NoSql,
                 NoError, "")

MainSubmit ==
    /\ entry = "main"
    /\ pc \in {"idle", "done"}
    /\ \E e \in HeaderErrors :
        Install(main_generate_sql(source_files.files[1], target_file,
                                  CLAUDE_API_KEY, e))
    /\ UNCHANGED <<parseVars, pageVars, envVars, formVars, sessVars>>

MainResponse ==
    /\ entry = "main"
    /\ pc = "calling"
    /\ \E r \in Responses :
        LET res == read_response(r) IN
        /\ pc' = "done"
        /\ response' = r
        /\ IF ~res.ok
           THEN /\ sql' = NoSql
                /\ error' = res.exc
                /\ shown' = "Internal server error: " \o res.exc.msg
           ELSE /\ sql' = Sql(res.value)
                /\ error' = NoError
                /\ shown' = ""
    /\ UNCHANGED <<parseVars, pageVars, envVars, formVars, sessVars, source_schemas,
                   target_df, join_keys_df, prompt, composed, outbound>>

-----------------------------------------------------------------------------
\* Specification of the generation requests: the caller's uploads, policy,
\* tier and environment are drawn initially; the caller may repeat the request.

AppForms ==
    /\ entry = "app"
    /\ is_paid \in BOOLEAN
    /\ source_files \in
          IF is_paid
          THEN {FileList(fs) : fs \in SeqsUpTo(SourceFiles, MaxSources)}
          ELSE {OneFile(f) : f \in SourceFiles \cup {NoFile}}
    /\ target_file \in TargetFiles
    /\ join_key_file \in JoinKeyFiles
    /\ \E pol \in Policies : unmapped_option = pol[1] /\ custom_value = pol[2]

MainForms ==
    /\ entry = "main"
    /\ is_paid = FALSE
    /\ source_files \in {OneFile(f) : f \in SourceFiles \cup {BadFile}}
    /\ target_file \in TargetFiles \ {NoFile}
    /\ join_key_file = NoFile
    /\ unmapped_option = "Null" /\ custom_value = ""

Init ==
    /\ ParseIdle
    /\ CLAUDE_API_KEY \in ApiKeys
    /\ usage_logs = 0
    /\ AppForms \/ MainForms
    /\ ReqIdle
    /\ SessIdle
    /\ PageIdle

Next == AppSubmit \/ AppResponse \/ MainSubmit \/ MainResponse

Spec == Init /\ [][Next]_vars

-----------------------------------------------------------------------------
\* Specification of the sessions of one user: the request of this session as
\* above, a second browser session of the same user that runs the same script
\* with usable uploads, and the calendar.  usage_logs is the number of the
\* user's generate_sql rows dated today.

\* The other session's run passes the same gate and reaches call_claude.
OtherSubmit ==
    /\ entry = "app"
    /\ other_pc = "idle"
    /\ reaches_form(is_paid, get_trial_days_left(days_used), usage_logs)
    /\ usage_logs < MaxLogs
    /\ other_pc' = "calling"
    /\ UNCHANGED <<parseVars, pageVars, envVars, formVars, reqVars, days_used>>

\* The other session's call returns; with SQL shown its row is inserted.
OtherResponse ==
    /\ entry = "app"
    /\ other_pc = "calling"
    /\ other_pc' = "idle"
    /\ \E r \in Responses, insert_ok \in BOOLEAN :
          usage_logs' = IF read_response(r).ok /\ insert_ok
                        THEN usage_logs + 1 ELSE usage_logs
    /\ UNCHANGED <<parseVars, pageVars, CLAUDE_API_KEY, is_paid, formVars, reqVars,
                   days_used>>

\* pd.Timestamp.now().date() moves on: one more day used, no row dated today.
Midnight ==
    /\ entry = "app"
    /\ days_used < MaxDays
    /\ days_used' = days_used + 1
    /\ usage_logs' = 0
    /\ UNCHANGED <<parseVars, pageVars, CLAUDE_API_KEY, is_paid, formVars, reqVars,
                   other_pc>>

InitSession ==
    /\ ParseIdle
    /\ CLAUDE_API_KEY = KeySet("sk-test")
    /\ usage_logs = 0
    /\ entry = "app"
    /\ is_paid \in BOOLEAN
    /\ source_files =
          (IF is_paid THEN FileList(<<SrcOrders>>) ELSE OneFile(SrcOrders))
    /\ target_file \in {TgtOrd, NoFile}
    /\ join_key_file = NoFile
    /\ unmapped_option = "Null" /\ custom_value = ""
    /\ ReqIdle
    /\ SessIdle
    /\ PageIdle

NextSession ==
    AppSubmit \/ AppResponse \/ OtherSubmit \/ OtherResponse \/ Midnight

SessionSpec == InitSession /\ [][NextSession]_vars

-----------------------------------------------------------------------------
\* Login, page routing and the payment handler of src/app.py.

AdminEmail   == "harterjay@gmail.com"
admin_emails == {AdminEmail}
Emails       == {AdminEmail, OtherEmail}

\* str.strip(): blanks at both ends are removed.
RECURSIVE LStrip(_)
LStrip(s) ==
    IF Len(s) > 0 /\ SubSeq(s, 1, 1) = " "
    THEN LStrip(SubSeq(s, 2, Len(s))) ELSE s
RECURSIVE RStrip(_)
RStrip(s) ==
    IF Len(s) > 0 /\ SubSeq(s, Len(s), Len(s)) = " "
    THEN RStrip(SubSeq(s, 1, Len(s) - 1)) ELSE s
StrStrip(s) == RStrip(LStrip(s))

\* [e.strip().lower() for e in admin_emails]
admin_emails_normalized == {StrLower(StrStrip(e)) : e \in admin_emails}

\* Variant: every signed-in user counts as an admin.
is_admin_Everyone(email) == TRUE

\* user_email = user.email.strip().lower();
\* user_email in admin_emails_normalized
is_admin(email) == StrLower(StrStrip(email)) \in admin_emails_normalized

\* supabase.auth.sign_in_with_password: the user of a registered account with
\* its password, otherwise no user (AuthApiError).
sign_in_with_password(registered, email, password_ok) ==
    IF email \in registered /\ password_ok THEN Return(User(email))
    ELSE Raise(Exc("AuthApiError", "Invalid login credentials"))

\* The checkout sessions Stripe knows, and the links that lead back to the
\* app: success_url has ?session_id={CHECKOUT_SESSION_ID}&email={user_email}.
CheckoutSessions ==
    { [id |-> "cs_test_a1", payment_status |-> "paid"],
      [id |-> "cs_test_b2", payment_status |-> "unpaid"] }
Queries == {NoQuery} \cup {Query(c.id, OtherEmail) : c \in CheckoutSessions}

\* stripe.checkout.Session.retrieve(session_id)
retrieve(session_id) ==
    IF \E c \in CheckoutSessions : c.id = session_id
    THEN Return(CHOOSE c \in CheckoutSessions : c.id = session_id)
    ELSE Raise(Exc("InvalidRequestError",
                   "No such checkout.session: " \o session_id))

\* value[0] of a query parameter: st.query_params["k"] is a str, so [0] is
\* its first character (the parameters of the links are not empty).
Index0(value) == SubSeq(value, 1, 1)

NoPayment == [update |-> {}, rerun |-> FALSE, error |-> NoError]
\* The Stripe payment success handler: the e-mails whose users row is set
\* to is_paid = true, whether st.rerun() is called, and the error shown.
payment_handler(q) ==
    IF ~q.present THEN NoPayment
    ELSE
    LET session_id == Index0(q.session_id)
        email      == Index0(q.email)
        session    == retrieve(session_id)
    IN
    IF ~session.ok
    THEN [update |-> {}, rerun |-> FALSE, error |-> session.exc]
    ELSE IF session.value.payment_status = "paid"
    THEN [update |-> {email}, rerun |-> TRUE, error |-> NoError]
    ELSE NoPayment

\* One run of the script from the top down to the main page: what it shows
\* and which users rows the payment handler updates.
Shows(page) == [rendered |-> page, update |-> {}]
script_run(u, page, paid, days, generations_today, q) ==
    IF u.none THEN Shows("login")
    ELSE IF ~reaches_form(paid, get_trial_days_left(days), generations_today)
    THEN Shows("blocked")
    ELSE IF page = "analytics"
    THEN Shows(IF is_admin(u.email) THEN "analytics" ELSE "no_access")
    ELSE IF page = "improvements"
    THEN Shows(IF is_admin(u.email) THEN "improvements" ELSE "no_access")
    ELSE IF page = "account" THEN Shows("account")
    ELSE LET h == payment_handler(q) IN
         [rendered |-> IF h.rerun THEN "rerun" ELSE "form", update |-> h.update]

-----------------------------------------------------------------------------
\* Specification of the pages: a browser session opens the app (with or
\* without the parameters of a checkout link), signs up, signs in, navigates,
\* edits the improvements and generates SQL.  Every action is one user
\* interaction together with the script run it triggers.

status_options == {"pending", "in_progress", "completed"}

\* A run in which "Generate SQL" was not pressed leaves no request behind.
NotSubmitted ==
    Outcome("idle", <<>>, NoDf, NoDf, "", FALSE, 0, NoSql, NoError, "")

\* The script run after an interaction: fetch_user_status, gating, routing
\* and the payment handler.  A new run shows no earlier generation result.
Rerun(u, page, q) ==
    LET paid == ~u.none /\ u.email \in paid_users
        r    == script_run(u, page, paid, days_used, usage_logs, q)
    IN  /\ rendered' = r.rendered
        /\ paid_users' = paid_users \cup (r.update \cap accounts)
        /\ is_paid' = paid
        /\ Install(NotSubmitted)

\* The browser opens the app's URL: a new session without a user.
OpenApp ==
    /\ entry = "app"
    /\ \E q \in Queries :
        /\ query' = q
        /\ user' = NoUser
        /\ current_page' = "main"
        /\ Rerun(NoUser, "main", q)
    /\ UNCHANGED <<parseVars, CLAUDE_API_KEY, usage_logs, formVars, sessVars,
                   accounts, improvements>>

\* Variant: a successful sign-up signs the new user in.
SignUp_SignsIn ==
    /\ entry = "app"
    /\ user.none
    /\ \E e \in Emails :
        /\ e \notin accounts
        /\ accounts' = accounts \cup {e}
        /\ user' = User(e)
    /\ UNCHANGED <<parseVars, envVars, formVars, reqVars, sessVars,
                   paid_users, current_page, query, rendered, improvements>>

\* show_login, signup branch: supabase.auth.sign_up registers the account and
\* insert_user_if_new adds its users row (is_paid false); back to the login.
SignUp ==
    /\ entry = "app"
    /\ user.none
    /\ \E e \in Emails :
        /\ e \notin accounts
        /\ accounts' = accounts \cup {e}
    /\ UNCHANGED <<parseVars, envVars, formVars, reqVars, sessVars, user,
                   paid_users, current_page, query, rendered, improvements>>

\* show_login, login branch: with a user from sign_in_with_password the
\* session user is set and the script reruns; otherwise the login page stays.
SignIn ==
    /\ entry = "app"
    /\ user.none
    /\ \E e \in Emails, password_ok \in BOOLEAN :
        LET res == sign_in_with_password(accounts, e, password_ok) IN
        IF res.ok
        THEN /\ user' = res.value
             /\ Rerun(res.value, current_page, query)
        ELSE UNCHANGED <<user, rendered, paid_users, is_paid, reqVars>>
    /\ UNCHANGED <<parseVars, CLAUDE_API_KEY, usage_logs, formVars, sessVars,
                   accounts, current_page, query, improvements>>

\* The sidebar buttons of the run: the two admin buttons exist for admins.
SidebarPages(u) ==
    {"main", "account"}
        \cup (IF is_admin(u.email) THEN {"analytics", "improvements"} ELSE {})

Navigate ==
    /\ entry = "app"
    /\ ~user.none
    /\ \E page \in SidebarPages(user) :
        /\ current_page' = page
        /\ Rerun(user, page, query)
    /\ UNCHANGED <<parseVars, CLAUDE_API_KEY, usage_logs, formVars, sessVars,
                   user, accounts, query, improvements>>

\* The run that handles a form of show_improvements comes to the page again.
OnImprovements ==
    /\ entry = "app"
    /\ rendered = "improvements"
    /\ script_run(user, current_page, is_paid, days_used, usage_logs,
                  query).rendered = "improvements"

Ids == 1..MaxImprovements
\* "Add Improvement Idea": insert (the row gets a new, greater id), st.rerun()
AddImprovement ==
    /\ OnImprovements
    /\ \E i \in Ids :
        /\ \A r \in improvements : r.id < i
        /\ i = 1 \/ \E r \in improvements : r.id = i - 1
        /\ improvements' = improvements \cup {[id |-> i, status |-> "pending"]}
    /\ UNCHANGED <<parseVars, envVars, formVars, reqVars, sessVars, user,
                   accounts, paid_users, current_page, query, rendered>>

\* "Update" of one row's edit form: update ... eq("id", row['id'])
UpdateImprovement ==
    /\ OnImprovements
    /\ \E r \in improvements, st \in status_options :
        improvements' =
            (improvements \ {r}) \cup {[id |-> r.id, status |-> st]}
    /\ UNCHANGED <<parseVars, envVars, formVars, reqVars, sessVars, user,
                   accounts, paid_users, current_page, query, rendered>>

\* "Delete" of one row's edit form: delete().eq("id", row['id'])
DeleteImprovement ==
    /\ OnImprovements
    /\ \E r \in improvements : improvements' = improvements \ {r}
    /\ UNCHANGED <<parseVars, envVars, formVars, reqVars, sessVars, user,
                   accounts, paid_users, current_page, query, rendered>>

InitPage ==
    /\ ParseIdle
    /\ CLAUDE_API_KEY = KeySet("sk-test")
    /\ is_paid = FALSE /\ usage_logs = 0
    /\ entry = "app"
    /\ source_files = OneFile(SrcOrders) /\ target_file = TgtOrd
    /\ join_key_file = NoFile
    /\ unmapped_option = "Null" /\ custom_value = ""
    /\ ReqIdle
    /\ days_used \in {0, TrialDays} /\ other_pc = "idle"
    /\ user = NoUser /\ accounts = {AdminEmail} /\ paid_users = {}
    /\ current_page = "main" /\ query \in Queries /\ rendered = "login"
    /\ improvements = {}

NextPage ==
    \/ OpenApp \/ SignUp \/ SignIn \/ Navigate
    \/ AddImprovement \/ UpdateImprovement \/ DeleteImprovement
    \/ AppSubmit \/ AppResponse

PageSpec == InitPage /\ [][NextPage]_vars

-----------------------------------------------------------------------------
\* Text predicates used by the properties.

\* Number of places where p occurs in s.
Count(s, p) ==
    Cardinality({i \in 1..(Len(s) - Len(p) + 1) :
                    SubSeq(s, i, i + Len(p) - 1) = p})

\* The line of a field record as the specification writes it; an attribute
\* contributes the text the parsed record holds for it.
RecordLine(t, c, ty, d) == t \o "." \o c \o " " \o ty \o " -- " \o d
RecordLineOf(df, i) ==
    RecordLine(RowGet(df, i, "table").s, RowGet(df, i, "column").s,
               RowGet(df, i, "type").s, RowGet(df, i, "description").s)

\* The lines of a document: the label line if there is a label, then one line
\* per record.
DocLines(doc) ==
    (IF doc.name.none THEN <<>> ELSE <<"[" \o doc.name.s \o "]">>)
        \o [i \in 1..Len(doc.df.rows) |-> RecordLineOf(doc.df, i)]

\* Lines separated by single newlines.
RECURSIVE Lines(_)
Lines(ls) ==
    IF ls = <<>> THEN ""
    ELSE IF Len(ls) = 1 THEN ls[1]
    ELSE Lines(SubSeq(ls, 1, Len(ls) - 1)) \o "\n" \o ls[Len(ls)]

\* Documents with one blank line between them.
RECURSIVE BlankLineJoined(_)
BlankLineJoined(docs) ==
    IF docs = <<>> THEN ""
    ELSE IF Len(docs) = 1 THEN Lines(DocLines(docs[1]))
    ELSE Lines(DocLines(docs[1])) \o "\n" \o "\n"
             \o BlankLineJoined(Tail(docs))

SourcesIntro == "Given the following source schemas (from different systems):\n"
TargetIntro  == "And the following target schema:\n"

-----------------------------------------------------------------------------
\* C4: prompt composition is deterministic: a request that composes from the
\* same sources, target, join keys and policy as the request before it
\* composes the same prompt, whatever the session went through in between
\* (usage log, earlier result or error).
C4_SamePrompt ==
    (/\ entry = "app" /\ composed /\ composed'
     /\ source_schemas' = source_schemas /\ target_df' = target_df
     /\ join_keys_df' = join_keys_df
     /\ unmapped_option' = unmapped_option /\ custom_value' = custom_value)
        => prompt' = prompt
UnmappedStart == "If a target field cannot be mapped to any source field, output "
UnmappedEnd   == " for that field in the SELECT statement."
PolicyLiteral ==
    CASE unmapped_option = "Null" -> "NULL"
      [] unmapped_option = "NO_VALUE" -> "the string literal 'NO_VALUE'"
      [] OTHER -> "the string literal '" \o custom_value \o "'"
C5_OnePolicySentence ==
    (entry = "app" /\ composed) =>
        /\ Count(prompt, UnmappedStart) = 1
        /\ Count(prompt, "\n" \o UnmappedStart \o PolicyLiteral
                              \o UnmappedEnd \o "\n") = 1

\* C5 witness: a prompt composed under the custom policy with the empty value.
C5_Witness ==
    /\ entry = "app" /\ composed
    /\ unmapped_option = "Custom value" /\ custom_value = ""

\* C6: with no join-key records (no file, or a file without data rows) the
\* prompt has no join-key section; otherwise it has the join-key sentence
\* followed by exactly one 'left_table.left_field = right_table.right_field'
\* line per record, in input order.
RECURSIVE JoinSection(_, _)
JoinSection(df, n) ==
    IF n = 0 THEN ""
    ELSE JoinSection(df, n - 1)
             \o RowGet(df, n, "left_table").s \o "."
             \o RowGet(df, n, "left_field").s \o " = "
             \o RowGet(df, n, "right_table").s \o "."
             \o RowGet(df, n, "right_field").s \o "\n"
C6_JoinKeySection ==
    (entry = "app" /\ composed) =>
        IF Len(join_keys_df.rows) = 0
        THEN /\ Count(prompt, JoinKeysSentence) = 0
             /\ Count(prompt, " = ") = 0
        ELSE /\ Count(prompt, "\n" \o JoinKeysSentence \o "\n"
                          \o JoinSection(join_keys_df, Len(join_keys_df.rows))
                          \o "\n") = 1
             /\ Count(prompt, JoinKeysSentence) = 1
             /\ Count(prompt, " = ") = Len(join_keys_df.rows)

\* C6 witness: a prompt composed with two join-key records.
C6_Witness ==
    /\ entry = "app" /\ composed /\ Len(join_keys_df.rows) = 2

\* C6 second case reached as well: a join-key file without data rows.
C6_EmptyFileReached ==
    entry = "app" /\ composed /\ ~join_key_file.none /\ join_keys_df.rows = <<>>

\* C7 (as stated): every source document renders as its '[<label>]' line iff
\* it has a label, followed by one '<table>.<column> <type> -- <description>'
\* line per record, lines separated by single newlines; the documents are
\* joined with exactly one blank line between them, in upload order.
C7_SourcesAsLines ==
    (entry = "app" /\ composed) =>
        Count(prompt, SourcesIntro \o BlankLineJoined(source_schemas)
                          \o "\n\n" \o TargetIntro) = 1

\* C7 (amended): a labelled document starts with '[<label>]' and a newline,
\* an unlabelled one with nothing; then come its record lines separated by
\* single newlines; documents are joined by one empty line.  (A labelled
\* document without records therefore ends with its newline.)
AmendedDoc(doc) ==
    (IF doc.name.none THEN "" ELSE "[" \o doc.name.s \o "]" \o "\n")
        \o Lines([i \in 1..Len(doc.df.rows) |-> RecordLineOf(doc.df, i)])
RECURSIVE AmendedSources(_)
AmendedSources(docs) ==
    IF docs = <<>> THEN ""
    ELSE IF Len(docs) = 1 THEN AmendedDoc(docs[1])
    ELSE AmendedDoc(docs[1]) \o "\n" \o "\n" \o AmendedSources(Tail(docs))
C7_SourcesRendered ==
    (entry = "app" /\ composed) =>
        /\ Count(prompt, SourcesIntro \o AmendedSources(source_schemas)
                             \o "\n\n" \o TargetIntro) = 1
        /\ \A k \in 1..Len(source_schemas) : ~source_schemas[k].name.none

\* C7 witness: two labelled source documents, the first one without records.
C7_Witness ==
    /\ entry = "app" /\ composed /\ Len(source_schemas) = 2
    /\ source_schemas[1].df.rows = <<>>
    /\ Len(source_schemas[2].df.rows) = 2

\* C8: the target document is rendered with the per-field line format of a
\* source, never with a label line, between a '<target>' line and a
\* '</target>' line, in both entry points.
C8_TargetBlock ==
    composed =>
        /\ Count(prompt, "\n" \o TargetIntro \o "<target>\n"
                     \o Lines(DocLines([name |-> PyNone, df |-> target_df]))
                     \o "\n</target>\n") = 1
        /\ Count(prompt, "<target>") = 1
        /\ Count(prompt, "</target>") = 1

\* C8 witness: a prompt of src/main.py with a one-record target.
C8_Witness ==
    /\ entry = "main" /\ composed /\ Len(target_df.rows) = 1

\* C8 reached in src/app.py as well, with a labelled source before the target.
C8_AppReached ==
    /\ entry = "app" /\ composed /\ Len(target_df.rows) = 1

\* C9: a row whose type or description cell is blank is parsed, and rendered
\* with empty text at the blank position.
BlankAs(cell) == IF cell.kind = "nan" THEN "" ELSE cell.s
C9_BlankRendersEmpty ==
    composed =>
        \A k \in 1..Len(source_schemas) :
            \A i \in 1..Len(source_schemas[k].df.rows) :
                LET df == source_schemas[k].df IN
                Count(prompt,
                      "\n" \o RecordLine(BlankAs(RowGet(df, i, "table")),
                                         BlankAs(RowGet(df, i, "column")),
                                         BlankAs(RowGet(df, i, "type")),
                                         BlankAs(RowGet(df, i, "description")))
                           \o "\n") >= 1

\* C10: without an upstream credential call_claude fails with
\* ConfigurationError and nothing is sent, in every entry point.
ConfigurationError(e) == e.type = "ValueError" /\ e.msg = ConfigurationMsg
NoCredential == ~CLAUDE_API_KEY.set \/ CLAUDE_API_KEY.value = ""
C10_NoCredentialNoCall ==
    (composed /\ NoCredential) =>
        /\ pc = "done"
        /\ ConfigurationError(error)
        /\ outbound = 0
        /\ ~sql.delivered

-----------------------------------------------------------------------------
\* Outcomes of the outbound call.

\* The endpoint answered with a status outside 2xx.
NonSuccess(r) == r.kind \notin {"none", "timeout"} /\ ~(r.status \in 200..299)
\* The endpoint answered 2xx with a body that has no content[0].text.
LacksText(r)  == r.status \in 200..299 /\ r.kind = "malformed"
\* The exceptions call_claude raises on the endpoint's answer.
UpstreamError(e) == e.type \in {"HTTPStatusError", "KeyError"}
\* The caller is told of the error e.
Reported(e) ==
    shown = (IF entry = "app" THEN "Error: " ELSE "Internal server error: ")
            \o e.msg

\* C11: a request whose call was answered with a non-success status, or with
\* a success status whose body lacks content[0].text, ends in an upstream
\* error that is reported to the caller, and the caller received no SQL text.
C11_UpstreamErrorNoSql ==
    (pc = "done" /\ (NonSuccess(response) \/ LacksText(response)))
        => /\ UpstreamError(error)
           /\ Reported(error)
           /\ ~sql.delivered /\ sql.text = ""
C11_Witness ==
    /\ pc = "done" /\ LacksText(response) /\ error.type = "KeyError"
C11_StatusReached ==
    /\ pc = "done" /\ NonSuccess(response) /\ entry = "main"

\* The call of this request failed: an error answer or no answer in time.
CallFailed == NonSuccess(response) \/ LacksText(response)
                 \/ response.kind = "timeout"
\* The request ran (the button was pressed) and its prompt was composed.
Composed == pc # "idle" /\ composed

\* C12 as stated: a request sends at most one call, exactly one whenever its
\* inputs were parsed and its prompt composed, and still only that one after
\* the call failed or timed out.
C12_OneCallPerRequest ==
    /\ outbound <= 1
    /\ Composed => outbound = 1
    /\ (pc = "done" /\ CallFailed) => outbound = 1

\* C12: a request sends at most one call, exactly one whenever its prompt was
\* composed and a non-empty credential is configured, and still only that
\* one after the call failed or timed out.
C12_OneCallWithCredential ==
    /\ outbound <= 1
    /\ (Composed /\ ~NoCredential) => outbound = 1
    /\ (pc = "done" /\ CallFailed) => outbound = 1
C12_Witness ==
    /\ pc = "done" /\ response.kind = "timeout" /\ outbound = 1
    /\ error.type = "ReadTimeout"

-----------------------------------------------------------------------------
\* The two ends of a request.

Succeeded == sql.delivered /\ error = NoError /\ shown = ""
Failed    == ~sql.delivered /\ error # NoError

\* C13: a finished request either delivered the SQL text and reports no
\* error, or reports an error and delivered no SQL text.
C13_NoPartialSuccess == (pc = "done") => (Succeeded \/ Failed)

\* The state a later request reads: environment, ledger, tier, calendar and
\* the widgets of the form.
Visible == <<envVars, formVars, sessVars>>
\* The part of a request's result that its inputs determine.
Determined ==
    <<source_schemas, target_df, join_keys_df, prompt, composed, outbound>>

\* The form is rendered for the user of src/app.py (src/main.py has no gate).
FormReached ==
    (entry = "app")
        => reaches_form(is_paid, get_trial_days_left(days_used), usage_logs)

\* C14: a step that ends a request in failure changes nothing a later request
\* reads and leaves the form reachable; the request started next with the
\* same inputs parses, composes and calls exactly as the failed one did, with
\* no trace of the failure.
C14_FailureStep ==
    /\ (pc' = "done" /\ Failed') => (UNCHANGED Visible /\ FormReached')
    /\ (pc = "done" /\ Failed /\ pc' # "idle")
          => /\ UNCHANGED Determined
             /\ pc' = (IF outbound = 1 THEN "calling" ELSE "done")
             /\ sql' = NoSql
             /\ (pc' = "done") => Failed'
C14_FailureLeavesNoTrace == [][C14_FailureStep]_vars
C14_Witness ==
    /\ pc = "done" /\ Failed /\ UpstreamError(error) /\ usage_logs = 1

-----------------------------------------------------------------------------
\* The inputs of a request, judged on the uploaded files themselves.

JoinHasRequired(f) ==
    /\ f.readable
    /\ \A c \in {"left_table", "left_field", "right_table", "right_field"} :
          c \in LoweredHeaders(f)
\* The uploads of the requests, and those among them that are workbooks with
\* the required headers.
Uploads == SourceFiles \cup TargetFiles \cup JoinKeyFiles
SchemaUploads == {f \in Uploads : HasRequired(f)}
JoinUploads   == {f \in Uploads : JoinHasRequired(f)}
SourcesValid ==
    /\ Len(source_files.files) >= 1
    /\ \A k \in 1..Len(source_files.files) :
          source_files.files[k] \in SchemaUploads
TargetValid == ~target_file.none /\ target_file \in SchemaUploads
JoinValid == join_key_file.none \/ join_key_file \in JoinUploads
\* The MissingColumns error of the join-key table.
JoinMissingColumns(e) == e.type = "ValueError" /\ e.msg = JoinColumnsMsg

\* C15: with valid source and target uploads, a request of src/app.py without
\* a join-key file is composed with an empty join-key table; with a join-key
\* file that is no workbook it ends in InvalidFormat; with a join-key sheet
\* that lacks one of the four columns after lower-casing it ends in
\* MissingColumns; in both failures nothing is composed.
C15_JoinKeyInput ==
    (entry = "app" /\ pc # "idle" /\ SourcesValid /\ TargetValid) =>
        /\ join_key_file.none
              => (composed /\ join_keys_df.rows = <<>>)
        /\ (~join_key_file.none /\ ~join_key_file.readable)
              => (pc = "done" /\ ~composed /\ InvalidFormat(error))
        /\ (join_key_file.readable /\ join_key_file \notin JoinUploads)
              => (pc = "done" /\ ~composed /\ JoinMissingColumns(error))

InputsValid == SourcesValid /\ TargetValid /\ JoinValid

\* C16: a call is sent only in a request whose source files (at least one),
\* target file and join-key file (if any) were all read and validated; a
\* request with an invalid or missing input ends with an error, without a
\* call, without SQL and without a usage-log entry.
C16_CallOnlyAfterValidation ==
    /\ (pc = "calling" \/ outbound >= 1) => InputsValid
    /\ (pc # "idle" /\ ~InputsValid)
          => /\ pc = "done" /\ error # NoError /\ shown # ""
             /\ ~composed /\ outbound = 0 /\ ~sql.delivered
             /\ usage_logs = 0
C16_Witness ==
    /\ entry = "app" /\ pc = "done" /\ SourcesValid /\ TargetValid
    /\ ~JoinValid /\ outbound = 0 /\ JoinMissingColumns(error)
C16_CallReached ==
    /\ entry = "app" /\ pc = "calling" /\ ~join_key_file.none

-----------------------------------------------------------------------------
\* The order of the sections of a prompt.

\* The places where p occurs in s, and the first of them (0 if there is none).
Places(s, p) ==
    {i \in 1..(Len(s) - Len(p) + 1) : SubSeq(s, i, i + Len(p) - 1) = p}
First(ps) == IF ps = {} THEN 0 ELSE CHOOSE i \in ps : \A j \in ps : i <= j

ClosingStart == "Write ONLY the SQL SELECT statement"
ClosingTSql  == "Format the SQL as a valid Microsoft SQL Server (T-SQL) script"
ClosingEnd   == "output only the SQL code."

\* C17: a prompt composed by src/app.py begins with the source schemas, then
\* has the <target> block, then the join-key section if and only if there are
\* join keys, then the unmapped-field sentence, and ends with the closing
\* instruction that asks for the T-SQL SELECT statement only; each of these
\* occurs once, the join-key section at most once.  (Looked at before the
\* answer arrives; the answer leaves the prompt as it is.)
C17_SectionOrder ==
    (entry = "app" /\ composed /\ response = NoResponse) =>
        LET src == Places(prompt, SourcesIntro)
            tin == Places(prompt, TargetIntro)
            top == Places(prompt, "<target>\n")
            tcl == Places(prompt, "\n</target>\n")
            jks == Places(prompt, JoinKeysSentence)
            pol == Places(prompt, UnmappedStart)
            clo == Places(prompt, ClosingStart)
            end == Places(prompt, ClosingEnd)
        IN  /\ \A ps \in {src, tin, top, tcl, pol, clo, end} :
                  Cardinality(ps) = 1
            /\ Cardinality(jks) =
                  (IF Len(join_keys_df.rows) = 0 THEN 0 ELSE 1)
            /\ First(src) = 1
            /\ First(src) < First(tin) /\ First(tin) < First(top)
            /\ First(top) < First(tcl)
            /\ (jks # {}) => (First(tcl) < First(jks) /\ First(jks) < First(pol))
            /\ First(tcl) < First(pol)
            /\ First(pol) < First(clo)
            /\ \E t \in Places(prompt, ClosingTSql) :
                  First(clo) < t /\ t < First(end)
            /\ First(end) + Len(ClosingEnd) - 1 = Len(prompt)
C17_Witness ==
    /\ entry = "app" /\ composed /\ Len(join_keys_df.rows) = 2
    /\ Len(source_schemas) = 2

-----------------------------------------------------------------------------
\* The limits of the free tier.

TrialExpired == days_used >= TrialDays
LimitReached == usage_logs >= DailyLimit
Blocked      == ~is_paid /\ (TrialExpired \/ LimitReached)

\* C18: while a free user's trial is expired or today's generate_sql rows are
\* 2 or more, no session of the user starts a request or sends a call (a
\* request already under way may still end); a paid user reaches the form
\* whatever the trial and the rows of today are.
C18_GateStep ==
    /\ (Blocked /\ pc # "calling")
          => (UNCHANGED reqVars /\ outbound' = outbound)
    /\ (Blocked /\ other_pc = "idle") => other_pc' = "idle"
    /\ Blocked => ~FormReached
    /\ is_paid => FormReached
C18_FreeTierGate == [][C18_GateStep]_vars
C18_Witness ==
    /\ is_paid /\ TrialExpired /\ LimitReached /\ pc = "calling"
C18_BlockedReached ==
    /\ ~is_paid /\ ~TrialExpired /\ usage_logs = DailyLimit
    /\ pc = "done" /\ Succeeded
C18_ExpiredReached ==
    /\ ~is_paid /\ days_used = TrialDays /\ usage_logs = 0 /\ pc = "idle"

-----------------------------------------------------------------------------
\* The usage ledger.

\* C19: in src/app.py a step that delivers SQL text to the user adds exactly
\* one generate_sql row for today, and a step of the user's request that
\* delivers none adds no row.
C19_LogStep ==
    (entry = "app" /\ pc = "calling" /\ pc' = "done") =>
        usage_logs' = (IF sql'.delivered THEN usage_logs + 1 ELSE usage_logs)
C19_OneRowPerDelivery == [][C19_LogStep]_vars

\* C20: a free user never has more than 2 generate_sql rows dated today.
C20_DailyLimitHolds == ~is_paid => usage_logs <= DailyLimit

-----------------------------------------------------------------------------
\* Payment, login and the admin pages.

\* The parameters of the page URL name a checkout session that Stripe holds
\* as paid, and an e-mail that has a users row.
PaidLink ==
    /\ query.present
    /\ \E c \in CheckoutSessions :
          c.id = query.session_id /\ c.payment_status = "paid"
    /\ query.email \in accounts

\* C21: once the script has run for a signed-in user on a URL whose
\* parameters name a paid checkout session, the users row of the e-mail in
\* the URL has is_paid = true, whatever the trial, today's generations and
\* the current page are.
C21_PaidSessionUpgrades ==
    (~user.none /\ PaidLink) => query.email \in paid_users

\* C22: in a session of src/app.py the form is shown, a request runs, a call
\* is sent and a usage-log row is written only with a session user; the
\* session user is set only from the login page, to the user of a registered
\* account, in a step that registers nothing; a sign-up leaves it unset.
C22_AuthStep ==
    /\ (rendered' = "form" \/ pc' # "idle") => ~user'.none
    /\ (outbound' > outbound \/ usage_logs' # usage_logs)
          => (~user.none /\ user' = user)
    /\ (user' # user /\ ~user'.none)
          => /\ user.none /\ rendered = "login"
             /\ user'.email \in accounts /\ accounts' = accounts
    /\ (accounts' # accounts) => (user.none /\ user'.none)
C22_OnlySignedIn == [][C22_AuthStep]_vars
C22_Witness ==
    /\ user = User(OtherEmail) /\ pc = "done" /\ Succeeded /\ usage_logs = 1

\* The e-mails that, trimmed and lower-cased, are in the admin list.
AdminUsers == {e \in Emails : StrLower(StrStrip(e)) \in {"harterjay@gmail.com"}}
AdminSession == ~user.none /\ user.email \in AdminUsers

\* C23: the analytics and the improvements page are shown only in the session
\* of an admin, and a row of the improvements table is added, changed or
\* removed only by a step of such a session.
C23_AdminStep ==
    /\ (rendered' \in {"analytics", "improvements"}) => AdminSession'
    /\ (improvements' # improvements) => (AdminSession /\ user' = user)
C23_AdminPagesOnly == [][C23_AdminStep]_vars
C23_Witness ==
    /\ AdminSession /\ rendered = "improvements" /\ improvements # {}
C23_OtherUserReached ==
    /\ user = User(OtherEmail) /\ rendered = "account" /\ improvements # {}
====
